---- MODULE Spec2Model ----
(***************************************************************************)
(* Wave-function-collapse solver of mapgen_2d                              *)
(* (src/src/wave_function_collapse.rs) with the rectangles of              *)
(* src/src/region.rs it resets and iterates.                               *)
(*                                                                         *)
(* Positions are <<x, y>> with 0-based coordinates.  A tile is its index   *)
(* 0..NTiles-1; index 0 is T::default().  An f32 probability p is held as  *)
(* the integer p * Den, which is exact for the callbacks below (their      *)
(* weights are 0 or 1 and sum to at most NTiles).  u32 and u64 values that *)
(* can leave the range of the grid (radii, corners of Rect::around) are    *)
(* little-endian sequences of 16-bit limbs, so that the truncation         *)
(* `radius as u32` and the saturating corner arithmetic keep their width.  *)
(***************************************************************************)
EXTENDS Integers, Naturals, Sequences, FiniteSets, TLC

\* ------------------------------------------------------------------ bounds
NTiles == 3
MaxWidth == 3
MaxHeight == 2
MaxCells == 4
MaxBombingsBound == 2
MaxNeighborhood == 2

\* ------------------------------------------------------------ fixed point
RECURSIVE Factorial(_)
Factorial(n) == IF n <= 1 THEN 1 ELSE n * Factorial(n - 1)

\* The denominator of the stored probabilities: 1.0 is Den, and w / s is exact
\* for every weight sum s in 1..NTiles.
Den == Factorial(NTiles)
NO_PROBABILITY == 0 - Den
Limb == 2 ^ 16

TileIdx == 0 .. (NTiles - 1)
DefaultTile == 0

\* `let x = v;` followed by the code F that uses x: v is computed once.
Bind(v, F(_)) == CHOOSE out \in {F(x) : x \in {v}} : TRUE

\* The function f as a table: its value at every argument is computed once.
Table(f) == f @@ <<>>

Min(a, b) == IF a <= b THEN a ELSE b
Max(a, b) == IF a >= b THEN a ELSE b
Abs(a) == IF a < 0 THEN 0 - a ELSE a

\* ------------------------------------------------------------- u32 / u64
\* u32 = <<lo, hi>>, u64 = <<l0, l1, l2, l3>>, limbs of 16 bits.
U32Of(n) == <<n % Limb, n \div Limb>>
U32Max == <<Limb - 1, Limb - 1>>
U32Less(a, b) == a[2] < b[2] \/ (a[2] = b[2] /\ a[1] < b[1])
U32Min(a, b) == IF U32Less(b, a) THEN b ELSE a
U32LessEq(a, b) == ~U32Less(b, a)
U32MaxOf(a, b) == IF U32Less(a, b) THEN b ELSE a
\* a + 1: the wrapped value, and whether the addition overflowed
U32Inc(a) ==
    IF a = U32Max THEN [value |-> <<0, 0>>, overflow |-> TRUE]
    ELSE [value |-> IF a[1] = Limb - 1 THEN <<0, a[2] + 1>> ELSE <<a[1] + 1, a[2]>>,
          overflow |-> FALSE]
\* the value of a u32 known to lie inside the grid
U32ToNat(a) == a[1] + a[2] * Limb

\* u32::saturating_sub
SaturatingSub(a, b) ==
    IF U32Less(a, b) THEN <<0, 0>>
    ELSE LET borrow == IF a[1] < b[1] THEN 1 ELSE 0
         IN  <<a[1] + borrow * Limb - b[1], a[2] - b[2] - borrow>>

\* u32::saturating_add
SaturatingAdd(a, b) ==
    LET lo == a[1] + b[1]
        hi == a[2] + b[2] + (lo \div Limb)
    IN  IF hi >= Limb THEN U32Max ELSE <<lo % Limb, hi>>

\* `x as u64`
AsU64(a) == <<a[1], a[2], 0, 0>>
\* `x as u32`: the low 32 bits
AsU32(r) == <<r[1], r[2]>>

\* x * 2 in u64, wrapping
U64Double(r) ==
    LET c1 == (2 * r[1]) \div Limb
        c2 == (2 * r[2] + c1) \div Limb
        c3 == (2 * r[3] + c2) \div Limb
    IN  <<(2 * r[1]) % Limb, (2 * r[2] + c1) % Limb,
          (2 * r[3] + c2) % Limb, (2 * r[4] + c3) % Limb>>

RECURSIVE U64ShiftLeft(_, _)
U64ShiftLeft(r, n) ==
    IF n = 0 THEN r
    ELSE Bind(U64Double(r), LAMBDA doubled : U64ShiftLeft(doubled, n - 1))

\* bomb_radius as u64 * 2_u64.pow(bombings_done); the product stays below
\* 2^64 for every bombings_done <= 32, which MaxBombingsBound keeps.
BombRadius(bomb_radius, bombings_done) ==
    Bind(AsU64(bomb_radius), LAMBDA r : U64ShiftLeft(r, bombings_done))

\* ------------------------------------------------------------------ Rect
\* Rect { top_left, bottom_right }, both inclusive, coordinates u32.
from_corners(top_left, bottom_right) ==
    [top_left |-> top_left, bottom_right |-> bottom_right]

\* size is <<w, h>> with w, h >= 1 (the assertion of from_size)
from_size(size) ==
    from_corners(<<U32Of(0), U32Of(0)>>,
                 <<U32Of(size[1] - 1), U32Of(size[2] - 1)>>)

\* an around that grows the square to the right and downwards only
around_from_center(center, radius) ==
    from_corners(center,
                 <<SaturatingAdd(center[1], radius), SaturatingAdd(center[2], radius)>>)

\* Rect::around
around(center, radius) ==
    from_corners(<<SaturatingSub(center[1], radius), SaturatingSub(center[2], radius)>>,
                 <<SaturatingAdd(center[1], radius), SaturatingAdd(center[2], radius)>>)

intersect(self, other) ==
    from_corners(<<U32Min(self.top_left[1], other.top_left[1]),
                   U32Min(self.top_left[2], other.top_left[2])>>,
                 <<U32Min(self.bottom_right[1], other.bottom_right[1]),
                   U32Min(self.bottom_right[2], other.bottom_right[2])>>)

\* a grow_to_include that moves the top-left corner only
grow_to_include_top_left(self, pos) ==
    from_corners(<<U32Min(self.top_left[1], pos[1]),
                   U32Min(self.top_left[2], pos[2])>>,
                 self.bottom_right)

\* the rectangle self is after self.grow_to_include(pos)
grow_to_include(self, pos) ==
    from_corners(<<U32Min(self.top_left[1], pos[1]),
                   U32Min(self.top_left[2], pos[2])>>,
                 <<U32MaxOf(self.bottom_right[1], pos[1]),
                   U32MaxOf(self.bottom_right[2], pos[2])>>)

\* RectIterator::new
RectIterator_new(rect) == [rect |-> rect, next |-> rect.top_left]

\* One call of RectIterator::next on the iterator it, coordinates at their
\* full width: [it, item, panic], item <<>> for None and <<r>> for Some(r).
\* `+= 1` at u32::MAX panics in a build with overflow checks and wraps to 0
\* in one without.
RectIterator_next(it, overflow_checks) ==
    LET r == it.next
        x1 == U32Inc(r[1])
        y1 == U32Inc(r[2])
        Panic == [it |-> it, item |-> <<>>, panic |-> TRUE]
    IN  IF U32Less(it.rect.bottom_right[2], r[2])
        THEN [it |-> it, item |-> <<>>, panic |-> FALSE]
        ELSE IF x1.overflow /\ overflow_checks THEN Panic
        ELSE IF U32Less(it.rect.bottom_right[1], x1.value)
             THEN IF y1.overflow /\ overflow_checks THEN Panic
                  ELSE [it |-> [it EXCEPT !.next = <<it.rect.top_left[1], y1.value>>],
                        item |-> <<r>>, panic |-> FALSE]
             ELSE [it |-> [it EXCEPT !.next = <<x1.value, r[2]>>],
                   item |-> <<r>>, panic |-> FALSE]

\* A position of the grid as the UVec2 the code holds, and back.
UVec2(p) == <<U32Of(p[1]), U32Of(p[2])>>
PosOf(u) == <<U32ToNat(u[1]), U32ToNat(u[2])>>

\* RectIterator::next, run to exhaustion from `next`: the positions yielded,
\* in order.  Only called on rectangles inside the grid.
RECURSIVE RectIterator(_, _)
RectIterator(rect, next) ==
    IF next[2] > U32ToNat(rect.bottom_right[2]) THEN <<>>
    ELSE Bind(IF next[1] + 1 > U32ToNat(rect.bottom_right[1])
              THEN <<U32ToNat(rect.top_left[1]), next[2] + 1>>
              ELSE <<next[1] + 1, next[2]>>,
              LAMBDA n2 : <<next>> \o RectIterator(rect, n2))

iter_indices(rect) ==
    Bind(rect, LAMBDA r : Bind(PosOf(r.top_left), LAMBDA first : RectIterator(r, first)))

RectCells(rect) ==
    Bind(iter_indices(rect), LAMBDA cells : {cells[i] : i \in 1 .. Len(cells)})

\* ---------------------------------------------------------- Neighborhood
chebyshev(d) == Max(Abs(d[1]), Abs(d[2]))

\* Neighborhood::iter_positions for Neighborhood::new(tiles, pos, chebyshev,
\* radius): the in-grid positions other than pos within the radius, row-major.
iter_positions(size, pos, radius) ==
    LET box == from_corners(
                   <<U32Of(Max(0, Min(pos[1] - radius, size[1] - 1))),
                     U32Of(Max(0, Min(pos[2] - radius, size[2] - 1)))>>,
                   <<U32Of(Max(0, Min(pos[1] + radius, size[1] - 1))),
                     U32Of(Max(0, Min(pos[2] + radius, size[2] - 1)))>>)
    IN  SelectSeq(iter_indices(box),
                  LAMBDA q : q # pos
                             /\ chebyshev(<<q[1] - pos[1], q[2] - pos[2]>>) <= radius)

NeighborSet(size, pos, radius) ==
    Bind(iter_positions(size, pos, radius),
         LAMBDA neighs : {neighs[i] : i \in 1 .. Len(neighs)})

\* Neighborhood::count
count(tiles, neighbors, x) == Cardinality({q \in neighbors : tiles[q] = x})

\* ------------------------------------------------- i32 (neighborhood.rs)
\* An i32 is the integer it denotes; the operations give the wrapped value
\* and whether they overflowed.
I32Max == (Limb \div 2 - 1) * Limb + (Limb - 1)
I32Min == (0 - I32Max) - 1

\* `x as i32` of a u32 and `x as u32` of an i32: the same 32 bits
AsI32(u) == IF u[2] < Limb \div 2 THEN u[2] * Limb + u[1]
            ELSE (u[2] - Limb) * Limb + u[1]
I32AsU32(i) == <<i % Limb, (i \div Limb) % Limb>>

I32Add(a, b) ==
    IF a > 0 /\ b > 0 /\ a > I32Max - b
    THEN [value |-> (a - I32Max - 1) + (b - I32Max - 1), overflow |-> TRUE]
    ELSE IF a < 0 /\ b < 0 /\ a < I32Min - b
    THEN [value |-> (a + I32Max + 1) + (b + I32Max + 1), overflow |-> TRUE]
    ELSE [value |-> a + b, overflow |-> FALSE]

I32Sub(a, b) ==
    IF b > 0 /\ a < I32Min + b
    THEN [value |-> (((a + I32Max + 1) - b) + I32Max) + 1, overflow |-> TRUE]
    ELSE IF b < 0 /\ a > I32Max + b
    THEN [value |-> (((a - I32Max - 1) - b) - I32Max) - 1, overflow |-> TRUE]
    ELSE [value |-> a - b, overflow |-> FALSE]

\* i32::abs
I32Abs(a) == IF a = I32Min THEN [value |-> I32Min, overflow |-> TRUE]
             ELSE [value |-> IF a < 0 THEN 0 - a ELSE a, overflow |-> FALSE]

\* a + b in u32
U32Add(a, b) ==
    LET lo == a[1] + b[1]
        hi == a[2] + b[2] + (lo \div Limb)
    IN  [value |-> <<lo % Limb, hi % Limb>>, overflow |-> hi >= Limb]

\* IVec2::clamp of one coordinate
clamp(v, lo, hi) == Min(Max(v, lo), hi)

\* ------------------------------------------------------ NeighborPositions
\* manhattan(a, b) of two UVec2: [value, panic]; an overflowing operation
\* panics in a build with overflow checks and wraps in one without.
manhattan(a, b, overflow_checks) ==
    LET dx == I32Sub(AsI32(a[1]), AsI32(b[1]))
        ax == I32Abs(dx.value)
        dy == I32Sub(AsI32(a[2]), AsI32(b[2]))
        ay == I32Abs(dy.value)
        sum == U32Add(I32AsU32(ax.value), I32AsU32(ay.value))
    IN  [value |-> sum.value,
         panic |-> overflow_checks /\ (dx.overflow \/ ax.overflow \/ dy.overflow
                                          \/ ay.overflow \/ sum.overflow)]

\* a filter that lets the centre through
is_neighbor_or_center(x, pos, radius, overflow_checks) ==
    LET m == manhattan(x, pos, overflow_checks)
    IN  [keep |-> ~m.panic /\ U32LessEq(m.value, radius), panic |-> m.panic]

\* the closure NeighborPositions::iter filters with: [keep, panic]
is_neighbor(x, pos, radius, overflow_checks) ==
    IF x = pos THEN [keep |-> FALSE, panic |-> FALSE]
    ELSE LET m == manhattan(x, pos, overflow_checks)
         IN  [keep |-> ~m.panic /\ U32LessEq(m.value, radius), panic |-> m.panic]

\* the filter run over the cells from the k-th on: [items, panic]; the items
\* before a panic have been yielded
RECURSIVE Filtered(_, _, _, _, _)
Filtered(cells, k, pos, radius, overflow_checks) ==
    IF k > Len(cells) THEN [items |-> <<>>, panic |-> FALSE]
    ELSE LET f == is_neighbor(UVec2(cells[k]), pos, radius, overflow_checks)
         IN  IF f.panic THEN [items |-> <<>>, panic |-> TRUE]
             ELSE LET rest == Filtered(cells, k + 1, pos, radius, overflow_checks)
                  IN  [items |-> (IF f.keep THEN <<cells[k]>> ELSE <<>>) \o rest.items,
                       panic |-> rest.panic]

\* NeighborPositions { size, position, radius }.iter(), run to its end:
\* [items, panic]
NeighborPositions_iter(np, overflow_checks) ==
    LET r == AsI32(np.radius)
        px == AsI32(np.position[1])
        py == AsI32(np.position[2])
        tlx == I32Sub(px, r)
        tly == I32Sub(py, r)
        brx == I32Add(px, r)
        bry == I32Add(py, r)
        box == from_corners(<<U32Of(clamp(tlx.value, 0, np.size[1] - 1)),
                              U32Of(clamp(tly.value, 0, np.size[2] - 1))>>,
                            <<U32Of(clamp(brx.value, 0, np.size[1] - 1)),
                              U32Of(clamp(bry.value, 0, np.size[2] - 1))>>)
    IN  IF overflow_checks /\ (tlx.overflow \/ tly.overflow \/ brx.overflow
                                  \/ bry.overflow)
        THEN [items |-> <<>>, panic |-> TRUE]
        ELSE Filtered(iter_indices(box), 1, np.position, np.radius, overflow_checks)

\* ------------------------------------------- Neighborhood (neighborhood.rs)
\* Neighborhood { a, valid, position, size }: a is left out (positions only),
\* valid is [some |-> FALSE] for None and [some |-> TRUE, v |-> mask].
INVALID_OFFSET == <<0, 0>>
FIRST_OFFSET == <<0, 1>>
LAST_OFFSET == <<0 - 1, 0>>

in_map_of_size(p, size) == p[1] >= 0 /\ p[2] >= 0 /\ p[1] < size[1] /\ p[2] < size[2]

\* a validity test that does not look at the mask
is_valid_unmasked(n, p) == TRUE

is_valid(n, p) == IF n.valid.some THEN n.valid.v[p] ELSE TRUE

\* Neighborhood::get at the position p = position + offset: <<p>> for Some,
\* <<>> for None
get(n, p) == IF in_map_of_size(p, n.size) /\ is_valid(n, p) THEN <<p>> ELSE <<>>

\* NeighborhoodIterator::next from the iterator's offset, run to the end:
\* [items, panic], items the positions of the Some((p, t)) yielded, in order
RECURSIVE NeighborhoodIterator(_, _, _)
NeighborhoodIterator(n, offset, overflow_checks) ==
    IF offset = LAST_OFFSET THEN [items |-> <<>>, panic |-> FALSE]
    ELSE LET o == IF offset = INVALID_OFFSET THEN FIRST_OFFSET
                  ELSE <<offset[2], 0 - offset[1]>>
             x == I32Add(n.position[1], o[1])
             y == I32Add(n.position[2], o[2])
         IN  IF overflow_checks /\ (x.overflow \/ y.overflow)
             THEN [items |-> <<>>, panic |-> TRUE]
             ELSE LET rest == NeighborhoodIterator(n, o, overflow_checks)
                  IN  [items |-> get(n, <<x.value, y.value>>) \o rest.items,
                       panic |-> rest.panic]

\* Neighborhood::iter_positions of neighborhood.rs
Neighborhood_iter_positions(n, overflow_checks) ==
    NeighborhoodIterator(n, INVALID_OFFSET, overflow_checks)

\* ------------------------------------------------------------- callbacks
\* The probability callbacks the solver is run with.  Each is a deterministic
\* function of the neighbourhood (its tiles and its position) and returns
\* NTiles weights, slot 0 first.
\* A weight the callback returns is an f32.  Huge stands for f32::MAX and
\* Infinity for the f32 a sum beyond f32::MAX is; the other weights of the
\* model are far below Huge, where the sum is the exact one.
Huge == 2 ^ 20
Infinity == 4 * Huge

Callbacks ==
    {"uniform", "uniform_all", "default", "sentinel", "distinct",
     "one_way", "lonely", "clash_corner"}

Contradiction == [i \in TileIdx |-> IF i = 0 THEN NO_PROBABILITY ELSE 0]

ProbabilityIn(cb, tiles, size, pos, neighbors) ==
    LET set == {q \in neighbors : tiles[q] # DefaultTile}
    IN  CASE cb = "uniform" -> [i \in TileIdx |-> IF i = 0 THEN 0 ELSE 1]
          [] cb = "uniform_all" -> [i \in TileIdx |-> 1]
          [] cb = "default" -> [i \in TileIdx |-> 0]
          [] cb = "sentinel" -> Contradiction
          \* a tile may not repeat a neighbour's tile
          [] cb = "distinct" ->
                [i \in TileIdx |->
                    IF i = 0 \/ count(tiles, neighbors, i) > 0 THEN 0 ELSE 1]
          \* tile 1 may not be placed next to tile 2; tile 2 may be placed anywhere
          [] cb = "one_way" ->
                [i \in TileIdx |->
                    IF i = 0 \/ (i = 1 /\ count(tiles, neighbors, 2) > 0)
                    THEN 0 ELSE 1]
          \* contradicts as soon as any neighbour is set: NO_PROBABILITY in
          \* slot 0 before weights of positive sum
          [] cb = "lonely" ->
                IF set # {} THEN [i \in TileIdx |-> IF i = 0 THEN NO_PROBABILITY ELSE Den]
                ELSE [i \in TileIdx |-> IF i = 0 THEN 0 ELSE 1]
          \* every tile but the sentinel has the greatest finite weight
          [] cb = "huge" -> [i \in TileIdx |-> IF i = 0 THEN 0 ELSE Huge]
          \* contradicts next to both a tile 1 and a tile 2, and at the far
          \* corner while no neighbour is set
          [] cb = "clash_corner" ->
                IF \/ pos = <<size[1] - 1, size[2] - 1>> /\ set = {}
                   \/ /\ count(tiles, neighbors, 1) > 0
                      /\ count(tiles, neighbors, 2) > 0
                THEN Contradiction
                ELSE [i \in TileIdx |-> IF i = 0 THEN 0 ELSE 1]

\* probability.wfc_probabilities(&Neighborhood::new(tiles, pos, chebyshev, radius)),
\* as the NTiles weights it returns
Probability(cb, tiles, size, pos, radius) ==
    Bind(NeighborSet(size, pos, radius),
         LAMBDA neighbors : Table(ProbabilityIn(cb, tiles, size, pos, neighbors)))

RECURSIVE SumTo(_, _)
SumTo(ps, i) == IF i < 0 THEN 0 ELSE ps[i] + SumTo(ps, i - 1)
Sum(ps) == SumTo(ps, NTiles - 1)

\* ps.iter().sum() in f32: two weights of f32::MAX add up to infinity
F32Sum(ps) == Bind(Sum(ps), LAMBDA s : IF s >= 2 * Huge THEN Infinity ELSE s)

\* p / s in f32, in units of 1 / Den: a finite p over infinity is 0.0
F32Div(p, s) == IF s = Infinity THEN 0 ELSE (p * Den) \div s

\* ------------------------------------------------------ update_probability
\* an update_probability that fails only on a sum that is not positive
update_probability_sum_only(pos, tiles, cfg, probabilities) ==
    Bind(Probability(cfg.probability, tiles, cfg.size, pos, cfg.neighborhood_size),
         LAMBDA ps :
    Bind(F32Sum(ps),
         LAMBDA s :
             IF s <= 0
             THEN [ok |-> FALSE, probabilities |-> probabilities]
             ELSE [ok |-> TRUE,
                   probabilities |->
                       [probabilities EXCEPT
                           ![pos] = Table([i \in TileIdx |-> F32Div(ps[i], s)])]]))

\* [ok, probabilities]: false leaves the tensor as it was.
update_probability(pos, tiles, cfg, probabilities) ==
    Bind(Probability(cfg.probability, tiles, cfg.size, pos, cfg.neighborhood_size),
         LAMBDA ps :
    Bind(F32Sum(ps),
         LAMBDA s :
             IF ps[0] = NO_PROBABILITY \/ s <= 0
             THEN [ok |-> FALSE, probabilities |-> probabilities]
             ELSE [ok |-> TRUE,
                   probabilities |->
                       [probabilities EXCEPT
                           ![pos] = Table([i \in TileIdx |-> F32Div(ps[i], s)])]]))

\* ------------------------------------------------------------------ entropy
\* 10^6 * log2(s) / s, the term -p * log2(p) of a probability p = 1 / s
PLog2(s) ==
    CASE s = 1 -> 0
      [] s = 2 -> 500000
      [] s = 3 -> 528321
      [] s = 4 -> 500000
      [] s = 5 -> 464386

\* the marker of an f32 NaN (every real entropy is >= 0)
NaN == 0 - 1

\* -sum(p == 0 ? 0 : p * log2(p)) in millionths of a bit; log2 of a negative
\* probability (NO_PROBABILITY) is NaN, and so is the sum.
Entropy(ps) ==
    IF \E i \in TileIdx : ps[i] < 0 THEN NaN
    ELSE LET term(i) == IF ps[i] = 0 THEN 0 ELSE PLog2(Den \div ps[i])
             RECURSIVE Acc(_)
             Acc(i) == IF i < 0 THEN 0 ELSE term(i) + Acc(i - 1)
         IN  Acc(NTiles - 1)

\* FloatOrd: a < b.  A NaN sorts above every number when its sign bit is
\* clear and below every number when it is set; which one log2 of a negative
\* number yields is the platform's (nan_is_max).
FloatOrdLess(a, b, nan_max) ==
    CASE a = NaN /\ b = NaN -> FALSE
      [] a = NaN -> ~nan_max
      [] b = NaN -> nan_max
      [] OTHER -> a < b

\* PriorityQueue::push: insert, or update the priority of a present item
push(entropy, item, priority) ==
    Table([q \in DOMAIN entropy \cup {item} |->
              IF q = item THEN priority ELSE entropy[q]])

\* PriorityQueue::change_priority: no effect on an absent item
change_priority(entropy, item, priority) ==
    IF item \in DOMAIN entropy THEN [entropy EXCEPT ![item] = priority] ELSE entropy

\* a pop that returns any item of the queue
PopCandidates_any(entropy, nan_max) == DOMAIN entropy

\* the items PriorityQueue::pop may return: those of greatest priority
PopCandidates(entropy, nan_max) ==
    {q \in DOMAIN entropy :
        \A r \in DOMAIN entropy : ~FloatOrdLess(entropy[q], entropy[r], nan_max)}

Remove(entropy, item) == Table([q \in DOMAIN entropy \ {item} |-> entropy[q]])

\* compute_entropy (one cell, assumed queued)
compute_entropy(pos, probabilities, entropy) ==
    change_priority(entropy, pos, Entropy(probabilities[pos]))

\* a compute_entropies that pushes the cells the queue does not hold and leaves
\* the priority of those it holds
compute_entropies_absent(rect, st) ==
    Bind(RectCells(rect),
         LAMBDA cells :
             [st EXCEPT !.entropy =
                 Table([q \in DOMAIN st.entropy \cup cells |->
                           IF q \in DOMAIN st.entropy THEN st.entropy[q]
                           ELSE Entropy(st.probabilities[q])])])

\* a compute_entropies that pushes every cell of the grid, whatever rect is
compute_entropies_everywhere(rect, st) ==
    [st EXCEPT !.entropy =
        Table([q \in DOMAIN st.probabilities |-> Entropy(st.probabilities[q])])]

\* compute_entropies: every cell of rect is pushed with the entropy of its
\* vector (the cells of a rectangle are distinct, so the pushes are independent)
compute_entropies(rect, st) ==
    Bind(RectCells(rect),
         LAMBDA cells :
             [st EXCEPT !.entropy =
                 Table([q \in DOMAIN st.entropy \cup cells |->
                           IF q \in cells THEN Entropy(st.probabilities[q])
                           ELSE st.entropy[q]])])

\* ------------------------------------------- loops over update_probability
\* A loop that calls update_probability on the cells of a sequence it does
\* not skip, and returns at the first failure.  The calls read only `tiles`,
\* which the loop does not write, and each writes only its own cell, so the
\* loop is decided cell by cell: the index of the first failure (Len + 1 when
\* none fails), and the cells evaluated before it.
FirstFailure(cells, skip, cfg, st) ==
    Bind({i \in 1 .. Len(cells) :
             /\ cells[i] \notin skip
             /\ ~update_probability(cells[i], st.tiles, cfg, st.probabilities).ok},
         LAMBDA failing :
             IF failing = {} THEN Len(cells) + 1
             ELSE CHOOSE i \in failing : \A j \in failing : i <= j)

\* a loop that re-evaluates the cells it should skip
EvaluatedBefore_unskipped(cells, k, skip) == {cells[i] : i \in 1 .. (k - 1)}

\* the cells the loop has evaluated when it reaches index k
EvaluatedBefore(cells, k, skip) == {cells[i] : i \in 1 .. (k - 1)} \ skip

Evaluate(cells, k, skip, cfg, st) ==
    Bind(EvaluatedBefore(cells, k, skip),
         LAMBDA done :
             Table([q \in DOMAIN st.probabilities |->
                       IF q \in done
                       THEN update_probability(q, st.tiles, cfg,
                                               st.probabilities).probabilities[q]
                       ELSE st.probabilities[q]]))

OneHot_unfilled(ps, tile) == [ps EXCEPT ![tile] = Den]

\* set_tile's closing write: the vector ps of the cell is filled with 0.0 and
\* gets 1.0 at the tile that was set.
OneHot(ps, tile) == Table([i \in DOMAIN ps |-> IF i = tile THEN Den ELSE 0])

\* ---------------------------------------------------------------- set_tile
\* a set_tile that evaluates the neighbours on the grid as it was before the
\* tile was written
SetTileNeighbors_stale(pos, tile, cfg, st, written, neighs, skip) ==
    Bind(FirstFailure(neighs, skip, cfg, st),
         LAMBDA k :
    Bind(Evaluate(neighs, k, skip, cfg, st),
         LAMBDA evaluated :
    Bind(Table([q \in DOMAIN st.entropy |->
                   IF q \in EvaluatedBefore(neighs, k, skip)
                   THEN Entropy(evaluated[q]) ELSE st.entropy[q]]),
         LAMBDA queued :
             IF k <= Len(neighs)
             THEN [ok |-> FALSE,
                   st |-> [written EXCEPT !.probabilities = evaluated,
                                          !.entropy = queued],
                   failed_at |-> neighs[k]]
             ELSE [ok |-> TRUE,
                   st |-> [written EXCEPT
                              !.probabilities =
                                  [evaluated EXCEPT ![pos] =
                                      OneHot(evaluated[pos], tile)],
                              !.entropy = queued],
                   failed_at |-> pos])))

\* set_tile on a cell that is not valid (the caller checks the assertion):
\* [ok, st, failed_at].  Every neighbour that is not valid is re-evaluated and
\* its priority changed, up to the first that fails; only when none fails is
\* the vector of pos made one-hot.
SetTileNeighbors(pos, tile, cfg, st, written, neighs, skip) ==
    Bind(FirstFailure(neighs, skip, cfg, written),
         LAMBDA k :
    Bind(Evaluate(neighs, k, skip, cfg, written),
         LAMBDA evaluated :
    Bind(Table([q \in DOMAIN st.entropy |->
                   IF q \in EvaluatedBefore(neighs, k, skip)
                   THEN Entropy(evaluated[q]) ELSE st.entropy[q]]),
         LAMBDA queued :
             IF k <= Len(neighs)
             THEN [ok |-> FALSE,
                   st |-> [written EXCEPT !.probabilities = evaluated,
                                          !.entropy = queued],
                   failed_at |-> neighs[k]]
             ELSE [ok |-> TRUE,
                   st |-> [written EXCEPT
                              !.probabilities =
                                  [evaluated EXCEPT ![pos] =
                                      OneHot(evaluated[pos], tile)],
                              !.entropy = queued],
                   failed_at |-> pos])))

set_tile(pos, tile, cfg, st) ==
    Bind([st EXCEPT !.tiles[pos] = tile, !.valid[pos] = TRUE],
         LAMBDA written :
    Bind(iter_positions(cfg.size, pos, cfg.neighborhood_size),
         LAMBDA neighs :
    Bind({q \in DOMAIN written.valid : written.valid[q]},
         LAMBDA skip :
             SetTileNeighbors(pos, tile, cfg, st, written, neighs, skip))))

\* ---------------------------------------------------- compute_probabilities
PositiveCount(ps) == Cardinality({i \in TileIdx : ps[i] > 0})

\* a reset that withdraws the commits and leaves the tiles in place
Cleared_valid_only(st, inside) ==
    [st EXCEPT !.valid = Table([q \in DOMAIN st.valid |->
                                   IF q \in inside THEN FALSE ELSE st.valid[q]])]

\* compute_probabilities' first loop: every cell of the rectangle gets the
\* default tile and is no longer valid
Cleared(st, inside) ==
    [st EXCEPT
        !.tiles = Table([q \in DOMAIN st.tiles |->
                            IF q \in inside THEN DefaultTile ELSE st.tiles[q]]),
        !.valid = Table([q \in DOMAIN st.valid |->
                            IF q \in inside THEN FALSE ELSE st.valid[q]])]

\* [ok, asserted, st]: asserted is false when one of the two closing
\* assertions fails (the call panics).
compute_probabilities(rect, cfg, st) ==
    Bind(iter_indices(rect),
         LAMBDA cells :
    Bind(RectCells(rect),
         LAMBDA inside :
    Bind(Cleared(st, inside),
         LAMBDA cleared :
    Bind(FirstFailure(cells, {}, cfg, cleared),
         LAMBDA k :
    Bind([cleared EXCEPT !.probabilities = Evaluate(cells, k, {}, cfg, cleared)],
         LAMBDA evaluated :
             IF k <= Len(cells)
             THEN [ok |-> FALSE, asserted |-> TRUE, st |-> evaluated]
             ELSE [ok |-> TRUE,
                   asserted |->
                       /\ PositiveCount(evaluated.probabilities[PosOf(rect.top_left)]) > 1
                       /\ PositiveCount(evaluated.probabilities[PosOf(rect.bottom_right)]) > 1,
                   st |-> evaluated])))))

\* ------------------------------------------------------------ tile choice
\* The selection loop of regenerate from index i with running sum p_sum:
\* [found, tile, zero]: zero when the index reached has probability 0.0
\* (the assertion fails), found false when no index is reached.
RECURSIVE ChooseFrom(_, _, _, _)
ChooseFrom(ps, roll, i, p_sum) ==
    IF i >= NTiles THEN [found |-> FALSE, tile |-> 0, zero |-> FALSE]
    ELSE IF roll <= p_sum + ps[i]
         THEN [found |-> TRUE, tile |-> i, zero |-> (ps[i] = 0)]
         ELSE ChooseFrom(ps, roll, i + 1, p_sum + ps[i])

ChooseTile(ps, roll) == ChooseFrom(ps, roll, 0, 0)

\* ------------------------------------------------------------------ state
VARIABLES
    configuration,  \* WaveFunctionCollapse: size, probability, neighborhood_size,
                    \* bomb_radius, max_bombings
    nan_is_max,     \* the platform: whether the NaN of log2(negative) sorts highest
    tiles, valid, probabilities, entropy, bombings_done,
                    \* WaveFunctionCollapseResult
    pc,             \* "built", "loop", "backtrack", "done", "panic"
    panic,          \* which panic ended the solve, "none" before
    pos, radius,    \* backtrack's argument and local
    bomb_area,      \* the rectangle of backtrack's latest attempt
    failed_at,      \* the neighbour whose evaluation made set_tile fail
    init_ok,        \* what compute_probabilities(all) returned
    call,           \* the operation under way with its arguments
    ret             \* what the operation of call has produced so far

vars == <<configuration, nan_is_max, tiles, valid, probabilities, entropy,
          bombings_done, pc, panic, pos, radius, bomb_area, failed_at, init_ok,
          call, ret>>

Sizes == {s \in (1 .. MaxWidth) \X (1 .. MaxHeight) : s[1] * s[2] <= MaxCells}
BombRadii == {U32Of(0), U32Of(1), <<0, 2 ^ 15>>}
Rolls == {0, Den \div 6, Den \div 2, (5 * Den) \div 6}

Configurations ==
    [size : Sizes, probability : Callbacks,
     neighborhood_size : 1 .. MaxNeighborhood,
     bomb_radius : BombRadii, max_bombings : 0 .. MaxBombingsBound]

Grid == (0 .. (configuration.size[1] - 1)) \X (0 .. (configuration.size[2] - 1))
all == from_size(configuration.size)

Result == [tiles |-> tiles, valid |-> valid, probabilities |-> probabilities,
           entropy |-> entropy]
NoRect == from_corners(<<U32Of(0), U32Of(0)>>, <<U32Of(0), U32Of(0)>>)
NoPos == <<0, 0>>

\* what ret holds before the operation of call has produced anything
Pending == [state |-> "pending"]

\* WaveFunctionCollapse::build
Init ==
    /\ configuration \in Configurations
    /\ nan_is_max \in BOOLEAN
    /\ tiles = [q \in Grid |-> DefaultTile]
    /\ valid = [q \in Grid |-> FALSE]
    /\ probabilities = [q \in Grid |-> [i \in TileIdx |-> NO_PROBABILITY]]
    /\ entropy = <<>>
    /\ bombings_done = 0
    /\ pc = "built"
    /\ panic = "none"
    /\ pos = NoPos
    /\ radius = AsU64(U32Of(0))
    /\ bomb_area = NoRect
    /\ failed_at = NoPos
    /\ init_ok = TRUE
    /\ call = [op |-> "generate"]
    /\ ret = Pending

SetResult(st) ==
    /\ tiles' = st.tiles
    /\ valid' = st.valid
    /\ probabilities' = st.probabilities
    /\ entropy' = st.entropy

\* regenerate, up to the head of its loop
Regenerate ==
    /\ pc = "built"
    /\ \E r \in {compute_probabilities(all, configuration, Result)} :
           /\ init_ok' = r.ok
           /\ IF r.asserted
              THEN /\ SetResult(compute_entropies(all, r.st))
                   /\ pc' = "loop"
                   /\ panic' = panic
              ELSE /\ SetResult(r.st)
                   /\ pc' = "panic"
                   /\ panic' = "probabilities_assert"
    /\ bombings_done' = 0
    /\ UNCHANGED <<configuration, nan_is_max, pos, radius, bomb_area, failed_at,
                   call, ret>>

\* regenerate called again on the result a solve returned, up to the head of
\* its loop
RegenerateAgain ==
    /\ pc = "done"
    /\ \E r \in {compute_probabilities(all, configuration, Result)} :
           /\ init_ok' = r.ok
           /\ IF r.asserted
              THEN /\ SetResult(compute_entropies(all, r.st))
                   /\ pc' = "loop"
                   /\ panic' = panic
              ELSE /\ SetResult(r.st)
                   /\ pc' = "panic"
                   /\ panic' = "probabilities_assert"
    /\ bombings_done' = 0
    /\ UNCHANGED <<configuration, nan_is_max, pos, radius, bomb_area, failed_at,
                   call, ret>>

\* one iteration of regenerate's loop, up to the call of backtrack
Collapse ==
    /\ pc = "loop"
    /\ entropy # <<>>
    /\ \E target \in PopCandidates(entropy, nan_is_max), roll \in Rolls :
       \E popped \in {[Result EXCEPT !.entropy = Remove(entropy, target)]} :
       \E c \in {ChooseTile(probabilities[target], roll)} :
       \E r \in {set_tile(target, c.tile, configuration, popped)} :
          LET Stop(why) == /\ SetResult(popped)
                           /\ pc' = "panic"
                           /\ panic' = why
                           /\ UNCHANGED <<pos, radius, failed_at>>
          IN  CASE c.found /\ c.zero -> Stop("zero_probability")
                [] ~c.found -> Stop("no_tile")
                [] c.found /\ ~c.zero /\ valid[target] -> Stop("already_valid")
                [] OTHER ->
                     /\ SetResult(r.st)
                     /\ panic' = panic
                     /\ IF r.ok
                        THEN /\ pc' = "loop"
                             /\ UNCHANGED <<pos, radius, failed_at>>
                        ELSE /\ pc' = "backtrack"
                             /\ pos' = target
                             /\ radius' = BombRadius(configuration.bomb_radius, bombings_done)
                             /\ failed_at' = r.failed_at
    /\ UNCHANGED <<configuration, nan_is_max, bombings_done, bomb_area, init_ok,
                   call, ret>>

\* regenerate returns: the queue is empty
Return ==
    /\ pc = "loop"
    /\ entropy = <<>>
    /\ pc' = "done"
    /\ UNCHANGED <<configuration, nan_is_max, tiles, valid, probabilities, entropy,
                   bombings_done, panic, pos, radius, bomb_area, failed_at, init_ok,
                   call, ret>>

\* a backtrack that does not count its attempts
Bombed_uncounted(done) == done

\* self.bombings_done += 1
Bombed(done) == done + 1

\* a budget check that is off by one: `>=` for `>`
BombingsExceeded_early(done, max_bombings) == done >= max_bombings

\* self.bombings_done > self.configuration.max_bombings
BombingsExceeded(done, max_bombings) == done > max_bombings

\* one iteration of backtrack's loop
Backtrack ==
    /\ pc = "backtrack"
    /\ \E area \in {intersect(around(UVec2(pos), AsU32(radius)), all)} :
       \E r \in {compute_probabilities(area, configuration, Result)} :
           /\ bomb_area' = area
           /\ bombings_done' = Bombed(bombings_done)
           /\ IF BombingsExceeded(Bombed(bombings_done), configuration.max_bombings)
              THEN /\ pc' = "panic"
                   /\ panic' = "bombings_exceeded"
                   /\ UNCHANGED <<tiles, valid, probabilities, entropy, radius>>
              ELSE CASE ~r.asserted ->
                          /\ SetResult(r.st)
                          /\ pc' = "panic"
                          /\ panic' = "probabilities_assert"
                          /\ UNCHANGED radius
                     [] r.asserted /\ ~r.ok ->
                          /\ SetResult(r.st)
                          /\ radius' = BombRadius(configuration.bomb_radius,
                                                  Bombed(bombings_done))
                          /\ pc' = "backtrack"
                          /\ UNCHANGED panic
                     [] OTHER ->
                          /\ SetResult(compute_entropies(area, r.st))
                          /\ pc' = "loop"
                          /\ UNCHANGED <<panic, radius>>
    /\ UNCHANGED <<configuration, nan_is_max, pos, failed_at, init_ok, call, ret>>

Next == Regenerate \/ Collapse \/ Return \/ Backtrack

Spec == Init /\ [][Next]_vars

\* The solver is one sequential computation: a step that can be taken is taken.
LiveSpec == Spec /\ WF_vars(Next)

\* A result that was returned may be solved again.
AgainNext == Regenerate \/ Collapse \/ Return \/ Backtrack \/ RegenerateAgain

AgainSpec == Init /\ [][AgainNext]_vars

\* ------------------------------------------- the rectangles on their own
\* Rect is public: its operations are called with any corners and positions.
MaxItems == 9
LibCoords == {U32Of(0), U32Of(1), U32Of(2), U32Max}
LibPositions == LibCoords \X LibCoords
LibRects == {from_corners(tl, br) : tl \in LibPositions, br \in LibPositions}

RectCalls ==
    {[op |-> "intersect", rect |-> r, size |-> sz] : r \in LibRects, sz \in Sizes}
    \cup {[op |-> "grow_to_include", rect |-> r, pos |-> p] :
              r \in LibRects, p \in LibPositions}
    \cup {[op |-> "iter_indices", rect |-> r, overflow_checks |-> c] :
              r \in LibRects, c \in BOOLEAN}
    \cup {[op |-> "around", center |-> p, radius |-> r] :
              p \in LibPositions, r \in LibCoords}

\* what ret holds when the call is made
Entered(c) ==
    CASE c.op = "grow_to_include" -> [state |-> "pending", value |-> c.rect, applied |-> 0]
      [] c.op = "iter_indices" ->
            [state |-> "running", it |-> RectIterator_new(c.rect), items |-> <<>>]
      [] OTHER -> Pending

\* no solve is under way: the result is the one build gives for a 1x1 grid
LibConfiguration ==
    [size |-> <<1, 1>>, probability |-> "uniform", neighborhood_size |-> 1,
     bomb_radius |-> U32Of(0), max_bombings |-> 0]

LibUnchanged ==
    UNCHANGED <<configuration, nan_is_max, tiles, valid, probabilities, entropy,
                bombings_done, pc, panic, pos, radius, bomb_area, failed_at,
                init_ok, call>>

\* no solve is under way
LibIdle ==
    /\ configuration = LibConfiguration
    /\ nan_is_max = FALSE
    /\ tiles = [q \in Grid |-> DefaultTile]
    /\ valid = [q \in Grid |-> FALSE]
    /\ probabilities = [q \in Grid |-> [i \in TileIdx |-> NO_PROBABILITY]]
    /\ entropy = <<>>
    /\ bombings_done = 0
    /\ pc = "built"
    /\ panic = "none"
    /\ pos = NoPos
    /\ radius = AsU64(U32Of(0))
    /\ bomb_area = NoRect
    /\ failed_at = NoPos
    /\ init_ok = TRUE

RectInit ==
    /\ LibIdle
    /\ call \in RectCalls
    /\ ret = Entered(call)

\* r.intersect(Rect::from_size(size))
Intersect ==
    /\ call.op = "intersect"
    /\ ret.state = "pending"
    /\ ret' = [state |-> "returned", value |-> intersect(call.rect, from_size(call.size))]
    /\ LibUnchanged

\* r.grow_to_include(pos), and once more with the same pos
GrowToInclude ==
    /\ call.op = "grow_to_include"
    /\ ret.applied < 2
    /\ ret' = [state |-> "returned", value |-> grow_to_include(ret.value, call.pos),
               applied |-> ret.applied + 1]
    /\ LibUnchanged

\* one call of next() on r.iter_indices()
IterIndicesNext ==
    /\ call.op = "iter_indices"
    /\ ret.state = "running"
    /\ Len(ret.items) <= MaxItems
    /\ \E n \in {RectIterator_next(ret.it, call.overflow_checks)} :
           ret' = [state |-> IF n.panic THEN "panic"
                             ELSE IF n.item = <<>> THEN "finished" ELSE "running",
                   it |-> n.it,
                   items |-> ret.items \o n.item]
    /\ LibUnchanged

\* Rect::around(center, radius)
Around ==
    /\ call.op = "around"
    /\ ret.state = "pending"
    /\ ret' = [state |-> "returned", value |-> around(call.center, call.radius)]
    /\ LibUnchanged

RectNext == Intersect \/ GrowToInclude \/ IterIndicesNext \/ Around

RectSpec == RectInit /\ [][RectNext]_vars

\* --------------------------------------- the neighbourhoods on their own
\* The centre of NeighborPositions is a UVec2 and its radius a u32; the centre
\* of Neighborhood is an IVec2 and may lie outside the array.
NPCoords == {U32Of(0), U32Of(1), U32Of(2), <<0, Limb \div 2>>, U32Max}
NPRadii == {U32Of(0), U32Of(1), U32Of(2), <<Limb - 1, Limb \div 2 - 1>>,
            <<0, Limb \div 2>>, U32Max}
NCoords == {0 - 1, 0, 1, 2, I32Max, I32Min}
GridOf(size) == (0 .. (size[1] - 1)) \X (0 .. (size[2] - 1))
Masks(size) ==
    {[some |-> FALSE]} \cup {[some |-> TRUE, v |-> m] : m \in [GridOf(size) -> BOOLEAN]}

NeighCalls ==
    {[op |-> "NeighborPositions::iter", size |-> sz, position |-> p, radius |-> r,
      overflow_checks |-> c] :
         sz \in Sizes, p \in NPCoords \X NPCoords, r \in NPRadii, c \in BOOLEAN}
    \cup UNION {{[op |-> "Neighborhood::iter_positions", size |-> sz, valid |-> m,
                  position |-> p, overflow_checks |-> c] :
                     m \in Masks(sz), p \in NCoords \X NCoords, c \in BOOLEAN} :
                sz \in Sizes}

NeighInit ==
    /\ LibIdle
    /\ call \in NeighCalls
    /\ ret = Pending

NeighborPositionsIter ==
    /\ call.op = "NeighborPositions::iter"
    /\ ret.state = "pending"
    /\ \E r \in {NeighborPositions_iter(call, call.overflow_checks)} :
           ret' = [state |-> IF r.panic THEN "panic" ELSE "returned", items |-> r.items]
    /\ LibUnchanged

NeighborhoodIterPositions ==
    /\ call.op = "Neighborhood::iter_positions"
    /\ ret.state = "pending"
    /\ \E r \in {Neighborhood_iter_positions(call, call.overflow_checks)} :
           ret' = [state |-> IF r.panic THEN "panic" ELSE "returned", items |-> r.items]
    /\ LibUnchanged

NeighNext == NeighborPositionsIter \/ NeighborhoodIterPositions

NeighSpec == NeighInit /\ [][NeighNext]_vars

\* ------------------------------------- the folds over a Neighborhood
\* Here a Neighborhood has its array too: [a, valid, position, size].
\* NeighborhoodIterator::next run to the end, with every item it yields:
\* [items, panic], an item <<p>> for Some((p, t)) and <<>> for None.
RECURSIVE iter_with_positions(_, _, _)
iter_with_positions(n, offset, overflow_checks) ==
    IF offset = LAST_OFFSET THEN [items |-> <<>>, panic |-> FALSE]
    ELSE LET o == IF offset = INVALID_OFFSET THEN FIRST_OFFSET
                  ELSE <<offset[2], 0 - offset[1]>>
             x == I32Add(n.position[1], o[1])
             y == I32Add(n.position[2], o[2])
         IN  IF overflow_checks /\ (x.overflow \/ y.overflow)
             THEN [items |-> <<>>, panic |-> TRUE]
             ELSE LET rest == iter_with_positions(n, o, overflow_checks)
                  IN  [items |-> <<get(n, <<x.value, y.value>>)>> \o rest.items,
                       panic |-> rest.panic]

\* Neighborhood::iter: the tile <<t>> of every Some, <<>> for None
Neighborhood_iter(n, overflow_checks) ==
    LET r == iter_with_positions(n, INVALID_OFFSET, overflow_checks)
    IN  [items |-> [k \in 1 .. Len(r.items) |->
                       IF r.items[k] = <<>> THEN <<>> ELSE <<n.a[r.items[k][1]]>>],
         panic |-> r.panic]

\* the tiles of the Some items: iter().filter_map(|x| x)
SomeTiles(items) == {items[k][1] : k \in {j \in 1 .. Len(items) : items[j] # <<>>}}

\* a count that counts the centre's own tile too, when the centre is in the map
Neighborhood_count_with_center(n, x, overflow_checks) ==
    LET r == Neighborhood_iter(n, overflow_checks)
    IN  [value |-> Cardinality({k \in 1 .. Len(r.items) : r.items[k] = <<x>>})
                   + (IF get(n, n.position) = <<>> THEN 0
                      ELSE IF n.a[n.position] = x THEN 1 ELSE 0),
         panic |-> r.panic]

\* Neighborhood::count
Neighborhood_count(n, x, overflow_checks) ==
    LET r == Neighborhood_iter(n, overflow_checks)
    IN  [value |-> Cardinality({k \in 1 .. Len(r.items) : r.items[k] = <<x>>}),
         panic |-> r.panic]

\* Neighborhood::has_only, xs the elements of the Vec
has_only(n, xs, overflow_checks) ==
    LET r == Neighborhood_iter(n, overflow_checks)
    IN  [value |-> \A k \in 1 .. Len(r.items) :
                       r.items[k] # <<>> => r.items[k][1] \in xs,
         panic |-> r.panic]

\* Neighborhood::min and Neighborhood::max: <<t>> for Some(t), <<>> for None
Neighborhood_min(n, overflow_checks) ==
    LET r == Neighborhood_iter(n, overflow_checks)
        some == SomeTiles(r.items)
    IN  [value |-> IF some = {} THEN <<>>
                   ELSE <<CHOOSE t \in some : \A u \in some : t <= u>>,
         panic |-> r.panic]

Neighborhood_max(n, overflow_checks) ==
    LET r == Neighborhood_iter(n, overflow_checks)
        some == SomeTiles(r.items)
    IN  [value |-> IF some = {} THEN <<>>
                   ELSE <<CHOOSE t \in some : \A u \in some : t >= u>>,
         panic |-> r.panic]

\* Neighborhood::get(offset), with the tile: <<t>> for Some(t), <<>> for None
Neighborhood_get(n, offset, overflow_checks) ==
    LET x == I32Add(n.position[1], offset[1])
        y == I32Add(n.position[2], offset[2])
    IN  IF overflow_checks /\ (x.overflow \/ y.overflow)
        THEN [value |-> <<>>, panic |-> TRUE]
        ELSE [value |-> IF get(n, <<x.value, y.value>>) = <<>> THEN <<>>
                        ELSE <<n.a[<<x.value, y.value>>]>>,
              panic |-> FALSE]

FoldSizes == {s \in Sizes : s[2] = 1}
FoldCoords == {0 - 1, 0, 1, I32Max}
Offsets == {0 - 1, 0, 1} \X {0 - 1, 0, 1}

\* Neighborhood::new(a, position) and Neighborhood::new_with_mask(a, mask,
\* position)
Neighborhoods ==
    UNION {{[size |-> sz, a |-> t, valid |-> m, position |-> p] :
                t \in [GridOf(sz) -> TileIdx], m \in Masks(sz),
                p \in FoldCoords \X FoldCoords} :
           sz \in FoldSizes}

\* the calls on one Neighborhood
FoldCalls(n) ==
    {[op |-> "count", n |-> n, x |-> x, overflow_checks |-> c] :
         x \in TileIdx, c \in BOOLEAN}
    \cup {[op |-> "has_only", n |-> n, xs |-> xs, overflow_checks |-> c] :
              xs \in SUBSET TileIdx, c \in BOOLEAN}
    \cup {[op |-> o, n |-> n, overflow_checks |-> c] :
              o \in {"min", "max", "iter", "iter_positions"}, c \in BOOLEAN}
    \cup {[op |-> "get", n |-> n, offset |-> o, overflow_checks |-> c] :
              o \in Offsets, c \in BOOLEAN}

FoldInit ==
    /\ LibIdle
    /\ \E n \in Neighborhoods : call \in FoldCalls(n)
    /\ ret = Pending

Returned(r) == [state |-> IF r.panic THEN "panic" ELSE "returned", value |-> r.value]

Count ==
    /\ call.op = "count"
    /\ ret.state = "pending"
    /\ ret' = Returned(Neighborhood_count(call.n, call.x, call.overflow_checks))
    /\ LibUnchanged

HasOnly ==
    /\ call.op = "has_only"
    /\ ret.state = "pending"
    /\ ret' = Returned(has_only(call.n, call.xs, call.overflow_checks))
    /\ LibUnchanged

MinMax ==
    /\ call.op \in {"min", "max"}
    /\ ret.state = "pending"
    /\ ret' = Returned(IF call.op = "min"
                       THEN Neighborhood_min(call.n, call.overflow_checks)
                       ELSE Neighborhood_max(call.n, call.overflow_checks))
    /\ LibUnchanged

Iter ==
    /\ call.op \in {"iter", "iter_positions"}
    /\ ret.state = "pending"
    /\ \E r \in {IF call.op = "iter"
                  THEN Neighborhood_iter(call.n, call.overflow_checks)
                  ELSE Neighborhood_iter_positions(call.n, call.overflow_checks)} :
           ret' = [state |-> IF r.panic THEN "panic" ELSE "returned",
                   value |-> r.items]
    /\ LibUnchanged

Get ==
    /\ call.op = "get"
    /\ ret.state = "pending"
    /\ ret' = Returned(Neighborhood_get(call.n, call.offset, call.overflow_checks))
    /\ LibUnchanged

FoldNext == Count \/ HasOnly \/ MinMax \/ Iter \/ Get

FoldSpec == FoldInit /\ [][FoldNext]_vars

\* --------------------------------------- update_probability on its own
\* The callback is the user's: update_probability is applied to every callback
\* of the model and to one whose weights are the greatest an f32 holds.
ExtremeCallbacks == {"huge"}

EvalCalls ==
    UNION {{[op |-> "update_probability", probability |-> cb, size |-> sz,
             tiles |-> t, pos |-> p] :
                cb \in Callbacks \cup ExtremeCallbacks,
                t \in [GridOf(sz) -> TileIdx], p \in GridOf(sz)} :
           sz \in {s \in Sizes : s[1] * s[2] <= 2}}

EvalConfiguration(c) ==
    [size |-> c.size, probability |-> c.probability, neighborhood_size |-> 1,
     bomb_radius |-> U32Of(0), max_bombings |-> 0]

EvalInit ==
    /\ LibIdle
    /\ call \in EvalCalls
    /\ ret = Pending

\* update_probability(pos, tiles, f, probabilities, neighborhood_size) on the
\* tensor build fills with NO_PROBABILITY
UpdateProbability ==
    /\ call.op = "update_probability"
    /\ ret.state = "pending"
    /\ \E r \in {update_probability(
                     call.pos, call.tiles, EvalConfiguration(call),
                     [q \in GridOf(call.size) |-> [i \in TileIdx |-> NO_PROBABILITY]])} :
           ret' = [state |-> "returned", ok |-> r.ok,
                   value |-> r.probabilities[call.pos]]
    /\ LibUnchanged

EvalNext == UpdateProbability

EvalSpec == EvalInit /\ [][EvalNext]_vars

\* ------------------------------------------- the tile selection on its own
\* The vectors a popped cell may hold: a normalized one, the fill of build
\* (after a failed initial pass), or the zeros an infinite sum leaves.
Vectors ==
    {v \in [TileIdx -> 0 .. Den] : Sum(v) = Den}
    \cup {[i \in TileIdx |-> NO_PROBABILITY], [i \in TileIdx |-> 0]}

SelectCalls == {[op |-> "select", ps |-> v, roll |-> r] : v \in Vectors, r \in Rolls}

SelectInit ==
    /\ LibIdle
    /\ call \in SelectCalls
    /\ ret = Pending

\* regenerate's selection of a tile for the popped cell, up to the call of
\* set_tile: the loop, its assertion, and the panic when no tile is reached
Select ==
    /\ call.op = "select"
    /\ ret.state = "pending"
    /\ \E c \in {ChooseTile(call.ps, call.roll)} :
           ret' = CASE c.found /\ c.zero -> [state |-> "panic", why |-> "zero_probability"]
                    [] ~c.found -> [state |-> "panic", why |-> "no_tile"]
                    [] OTHER -> [state |-> "committed", tile |-> c.tile]
    /\ LibUnchanged

SelectNext == Select

SelectSpec == SelectInit /\ [][SelectNext]_vars

\* ------------------------------------------------------------------ claims
Committed == {q \in Grid : valid[q]}
BombArea == RectCells(bomb_area)
ResultVars == <<tiles, valid, probabilities, entropy>>
\* the weights the callback gives cell q on the current grid
WeightsAt(q) ==
    Probability(configuration.probability, tiles, configuration.size, q,
                configuration.neighborhood_size)
\* a u64 r is at least the small number d
U64AtLeast(r, d) == r[2] > 0 \/ r[3] > 0 \/ r[4] > 0 \/ r[1] >= d
\* the in-grid cells of the square of the given radius around centre
SquareAround(centre, r) ==
    {q \in Grid : /\ U64AtLeast(r, Abs(q[1] - centre[1]))
                  /\ U64AtLeast(r, Abs(q[2] - centre[2]))}
\* an attempt of backtrack that goes on to reset its rectangle
ResetStep == pc = "backtrack" /\ panic' # "bombings_exceeded"

\* C1: whenever regenerate returns, every cell of the grid is committed.
C1_ReturnedGridIsCommitted == pc = "done" => \A q \in Grid : valid[q]

\* C2: every committed cell holds a tile index in 1..N-1, never the sentinel 0.
C2_SentinelNeverCommitted ==
    \A q \in Grid : valid[q] => tiles[q] \in 1 .. (NTiles - 1)

\* C3: in the returned grid, the tile of every cell has a strictly positive
\* weight in the callback's result for that cell's neighbourhood.
C3_ReturnedGridIsConsistent ==
    pc = "done" => \A q \in Grid : WeightsAt(q)[tiles[q]] > 0

\* C4: the assertion `*p != 0.0` of the selection loop never fails.
C4_ChosenTileHasProbability == panic # "zero_probability"

\* C5: when the initial probability pass fails, the solve aborts before the
\* main loop: the loop is not entered, no cell is committed, nothing is bombed.
C5_InitContradictionAborts ==
    ~init_ok => /\ pc \notin {"loop", "backtrack", "done"}
                /\ Committed = {}
                /\ bombings_done = 0

C7_BombingBudget ==
    [][/\ pc = "built" => bombings_done' = 0
       /\ pc = "backtrack" => bombings_done' = bombings_done + 1
       /\ pc \notin {"built", "backtrack"} => bombings_done' = bombings_done
       /\ pc = "backtrack" =>
             /\ (bombings_done' > configuration.max_bombings)
                   <=> (pc' = "panic" /\ panic' = "bombings_exceeded")
             /\ bombings_done' > configuration.max_bombings
                   => UNCHANGED ResultVars]_vars

C7_Witness ==
    /\ pc = "panic"
    /\ panic = "bombings_exceeded"
    /\ configuration.max_bombings >= 1
    /\ bombings_done = configuration.max_bombings + 1

\* C8: the rectangle an attempt of backtrack resets holds exactly the grid
\* cells within radius (bomb_radius * 2^bombings_done) of pos on both axes.
C8_BombAreaIsCentredSquare ==
    [][ResetStep => RectCells(bomb_area') = SquareAround(pos, radius)]_vars

C10_BombAreaEnclosesContradiction ==
    [][ResetStep => /\ failed_at \in RectCells(bomb_area')
                    /\ pos \in RectCells(bomb_area')]_vars

\* C11: the state a solve ends in after an init contradiction differs from the
\* one it ends in on backtracking exhaustion (and from a normal return): a
\* solve whose initial pass failed never ends with the exhaustion panic or
\* with a returned grid.
C11_OutcomesDistinguishable ==
    ~init_ok => /\ pc # "done"
                /\ ~(pc = "panic" /\ panic = "bombings_exceeded")

\* The result WaveFunctionCollapse::build constructs for the configuration.
Built ==
    [tiles |-> [q \in Grid |-> DefaultTile],
     valid |-> [q \in Grid |-> FALSE],
     probabilities |-> [q \in Grid |-> [i \in TileIdx |-> NO_PROBABILITY]],
     entropy |-> <<>>]

\* The result a solve of a freshly built result has at the head of its loop.
Started ==
    Bind(compute_probabilities(all, configuration, Built),
         LAMBDA r : IF r.asserted THEN compute_entropies(all, r.st) ELSE r.st)

\* C12: a solve is determined by its configuration: regenerate called on a
\* returned result with the configuration unchanged starts from the very state
\* the first solve started from (so that, with the same seed, it steps through
\* the same states and returns the same tiles).
C12_RegenerateIsRepeatable ==
    [][pc = "done" => Result' = Started /\ bombings_done' = 0]_vars

\* C13: at every boundary between two iterations of the main loop, the stored
\* probability vector of every committed cell is one-hot: 1 at the committed
\* tile and 0 at every other tile.
C13_CommittedCellsAreOneHot ==
    pc = "loop" =>
        \A q \in Grid :
            valid[q] => \A i \in TileIdx :
                            probabilities[q][i] = IF i = tiles[q] THEN Den ELSE 0

\* a cell whose commit led to a contradiction is committed again after the
\* bombing, next to another committed cell
C13_Witness ==
    /\ pc = "loop"
    /\ bombings_done > 0
    /\ valid[pos]
    /\ \E q \in Grid : q # pos /\ valid[q]

\* the cells whose tile or validity a step writes
Written == {q \in Grid : tiles'[q] # tiles[q] \/ valid'[q] # valid[q]}

\* C14: tiles and valid agree.  A cell that is not valid holds the default
\* tile.  A step of the main loop writes at most one cell, one that was not
\* valid: it becomes valid with the tile selected for it (a tile of positive
\* probability there); a step of the initial pass or of backtrack only resets
\* cells (not valid, default tile); no other step writes tiles or valid, so a
\* valid cell holds the tile of its most recent commit.
C14_TilesAndValidAgree ==
    /\ [](\A q \in Grid : ~valid[q] => tiles[q] = DefaultTile)
    /\ [][/\ pc = "loop" =>
               /\ Cardinality(Written) <= 1
               /\ \A q \in Written : /\ ~valid[q] /\ valid'[q]
                                     /\ probabilities[q][tiles'[q]] > 0
          /\ pc \in {"built", "backtrack"} =>
               \A q \in Written : ~valid'[q] /\ tiles'[q] = DefaultTile
          /\ pc \notin {"loop", "built", "backtrack"} => Written = {}]_vars

\* after a bombing, a committed cell with a tile other than the default next to
\* a cell that is not committed
C14_Witness ==
    /\ pc = "loop"
    /\ bombings_done > 0
    /\ \E q \in Grid : valid[q] /\ tiles[q] # DefaultTile
    /\ \E q \in Grid : ~valid[q]

\* ------------------------------------------------------ claims on Rect
\* the position p (a UVec2) lies in the inclusive rectangle rect
Inside(p, rect) ==
    /\ U32LessEq(rect.top_left[1], p[1]) /\ U32LessEq(p[1], rect.bottom_right[1])
    /\ U32LessEq(rect.top_left[2], p[2]) /\ U32LessEq(p[2], rect.bottom_right[2])

\* the position p lies in the grid of the given size
InGrid(p, size) == U32Less(p[1], U32Of(size[1])) /\ U32Less(p[2], U32Of(size[2]))

\* the corners are those of a rectangle: it contains its corners
WellFormed(rect) == Inside(rect.top_left, rect) /\ Inside(rect.bottom_right, rect)

\* p comes before q in row-major order, x varying fastest
RowMajorBefore(p, q) ==
    U32Less(p[2], q[2]) \/ (p[2] = q[2] /\ U32Less(p[1], q[1]))

\* C17: r.intersect(Rect::from_size(size)) lies inside the grid, top_left <=
\* bottom_right <= size - 1 on both axes, and contains exactly the positions
\* that are in r and in the grid.
C17_IntersectIsGridPart ==
    call.op = "intersect" /\ ret.state = "returned" =>
        /\ WellFormed(ret.value)
        /\ InGrid(ret.value.bottom_right, call.size)
        /\ \A p \in LibPositions :
               Inside(p, ret.value) <=> Inside(p, call.rect) /\ InGrid(p, call.size)

\* C18: the items r.iter_indices() yields are positions of r, each once and in
\* row-major order; no call of next() panics; when the iterator is finished
\* every position of r has been yielded.
C18_IterIndicesEnumeratesRect ==
    call.op = "iter_indices" /\ WellFormed(call.rect) =>
        /\ ret.state # "panic"
        /\ \A k \in 1 .. Len(ret.items) : Inside(ret.items[k], call.rect)
        /\ \A k \in 1 .. (Len(ret.items) - 1) :
               RowMajorBefore(ret.items[k], ret.items[k + 1])
        /\ ret.state = "finished" =>
               \A p \in LibPositions :
                   Inside(p, call.rect) => \E k \in 1 .. Len(ret.items) : ret.items[k] = p

\* C19: r.grow_to_include(pos) leaves the smallest rectangle that contains r and
\* pos: pos is inside, every position of r is still inside, every rectangle
\* that contains the corners of r and pos contains it, an r that contained pos
\* is unchanged,
\* and a second application with the same pos changes nothing.
C19_GrowToIncludeIsSmallestCover ==
    call.op = "grow_to_include" /\ ret.applied >= 1 =>
        /\ Inside(call.pos, ret.value)
        /\ \A q \in LibPositions : Inside(q, call.rect) => Inside(q, ret.value)
        /\ \A c \in LibRects :
               (/\ Inside(call.pos, c)
                /\ Inside(call.rect.top_left, c)
                /\ Inside(call.rect.bottom_right, c))
               => Inside(ret.value.top_left, c) /\ Inside(ret.value.bottom_right, c)
        /\ Inside(call.pos, call.rect) => ret.value = call.rect
        /\ ret.applied = 2 => ret.value = grow_to_include(call.rect, call.pos)

\* a rectangle grown twice by a position it did not contain
C19_Witness ==
    /\ call.op = "grow_to_include"
    /\ ret.applied = 2
    /\ WellFormed(call.rect)
    /\ ~Inside(call.pos, call.rect)
    /\ ret.value # call.rect

\* ----------------------------------------------- claims on neighbourhoods
\* C15: no position a neighbourhood iteration yields lies outside the grid or
\* is the centre, wherever the centre lies and whatever the radius, for
\* NeighborPositions::iter and for Neighborhood::iter_positions with or
\* without a mask.
C15_NeighborsInGridNotCentre ==
    /\ call.op = "NeighborPositions::iter" /\ ret.state # "pending" =>
           \A k \in 1 .. Len(ret.items) :
               ret.items[k] \in GridOf(call.size) /\ UVec2(ret.items[k]) # call.position
    /\ call.op = "Neighborhood::iter_positions" /\ ret.state # "pending" =>
           \A k \in 1 .. Len(ret.items) :
               ret.items[k] \in GridOf(call.size) /\ ret.items[k] # call.position

\* neighbours yielded around a centre that lies outside the grid
C15_Witness ==
    /\ call.op = "NeighborPositions::iter"
    /\ ret.state = "returned"
    /\ ~InGrid(call.position, call.size)
    /\ Len(ret.items) > 0

\* |a - b| of two u32
AbsDiff(a, b) == IF U32Less(a, b) THEN SaturatingSub(b, a) ELSE SaturatingSub(a, b)

\* the Manhattan distance of the grid position q from the centre c (a UVec2)
\* is at most the radius r
WithinManhattan(q, c, r) ==
    LET d == U32Add(AbsDiff(U32Of(q[1]), c[1]), AbsDiff(U32Of(q[2]), c[2]))
    IN  ~d.overflow /\ U32LessEq(d.value, r)

\* the grid position q is at Manhattan distance 1 from the centre c (an IVec2)
Adjacent(q, c) ==
    \/ q[1] = c[1] /\ (q[2] - 1 = c[2] \/ q[2] + 1 = c[2])
    \/ q[2] = c[2] /\ (q[1] - 1 = c[1] \/ q[1] + 1 = c[1])

\* the positions of S in row-major order, x varying fastest
RECURSIVE RowMajor(_)
RowMajor(S) ==
    IF S = {} THEN <<>>
    ELSE LET first == CHOOSE q \in S :
                          \A o \in S : o = q \/ q[2] < o[2]
                                             \/ (q[2] = o[2] /\ q[1] < o[1])
         IN  <<first>> \o RowMajor(S \ {first})

\* C16: a neighbourhood iteration yields, in row-major order and each once,
\* exactly the positions of the grid other than the centre whose distance from
\* the centre is at most the radius (Manhattan in neighborhood.rs; radius 1
\* for Neighborhood, whose mask leaves out the positions that are not valid).
C16_NeighborsCompleteRowMajor ==
    /\ call.op = "NeighborPositions::iter" /\ ret.state # "pending" =>
           /\ ret.state = "returned"
           /\ ret.items = RowMajor({q \in GridOf(call.size) :
                                        /\ UVec2(q) # call.position
                                        /\ WithinManhattan(q, call.position,
                                                            call.radius)})
    /\ call.op = "Neighborhood::iter_positions" /\ ret.state # "pending" =>
           /\ ret.state = "returned"
           /\ ret.items = RowMajor({q \in GridOf(call.size) :
                                        /\ Adjacent(q, call.position)
                                        /\ is_valid(call, q)})

\* -------------------------------------------------- claims on the queue
\* the entropy of the vector stored for the cell q
CurrentEntropy(q) == Entropy(probabilities[q])

\* C20: an iteration of the main loop that finds the queue non-empty removes
\* exactly one cell from it, and no cell of the queue has a vector of greater
\* entropy (in the order of the queue, FloatOrd) than the cell removed.
C20_PopsMaximalEntropy ==
    [][pc = "loop" /\ entropy # <<>> =>
          \E t \in DOMAIN entropy :
              /\ DOMAIN entropy' = DOMAIN entropy \ {t}
              /\ \A q \in DOMAIN entropy :
                     ~FloatOrdLess(CurrentEntropy(t), CurrentEntropy(q), nan_is_max)]_vars

\* the queue at the head of the loop after a bombing, with a cell committed:
\* cells of different entropy are waiting
C20_Witness ==
    /\ pc = "loop"
    /\ bombings_done > 0
    /\ \E q, o \in DOMAIN entropy : CurrentEntropy(q) < CurrentEntropy(o)
    /\ \E q \in Grid : valid[q]

\* The cells that are not committed.
Uncommitted == {q \in Grid : ~valid[q]}

\* C21: at the head of every iteration of the main loop the positions in the
\* entropy queue are exactly the cells that are not committed, so that the
\* cell popped is never committed already (the assertion of set_tile holds).
C21_QueueIsUncommitted ==
    /\ pc = "loop" => DOMAIN entropy = Uncommitted
    /\ panic # "already_valid"

\* C22: a committed cell keeps its tile, its valid flag and its vector through
\* every iteration of the main loop (the commits of other cells and the
\* re-evaluation of their neighbours); a cell stops being valid only in an
\* attempt of backtrack whose rectangle holds it; and a cell that has been
\* evaluated stays evaluated through the main loop.
C22_CellsMoveForward ==
    [][\A q \in Grid :
          /\ (valid[q] /\ pc = "loop") =>
                /\ tiles'[q] = tiles[q]
                /\ valid'[q]
                /\ probabilities'[q] = probabilities[q]
          /\ (valid[q] /\ ~valid'[q]) =>
                /\ pc = "backtrack"
                /\ q \in RectCells(bomb_area')
          /\ (pc = "loop" /\ probabilities[q][0] # NO_PROBABILITY) =>
                probabilities'[q][0] # NO_PROBABILITY]_vars

\* after a reset, a cell of the reset rectangle has been committed again
\* while another cell was committed
C22_Witness ==
    /\ pc = "loop"
    /\ bombings_done > 0
    /\ Cardinality(Committed) >= 2
    /\ \E q \in BombArea : valid[q]

\* the vector update_probability stores for the weights w: w_i / sum(w)
Normalized(w) == [i \in TileIdx |-> (w[i] * Den) \div Sum(w)]

\* q is a neighbour of t: another cell within the configured radius
Near(q, t) ==
    /\ q # t
    /\ Max(Abs(q[1] - t[1]), Abs(q[2] - t[2])) <= configuration.neighborhood_size

\* the step leaves cell q as it was
SameCell(q) ==
    /\ tiles'[q] = tiles[q]
    /\ valid'[q] = valid[q]
    /\ probabilities'[q] = probabilities[q]
    /\ (q \in DOMAIN entropy') <=> (q \in DOMAIN entropy)
    /\ q \in DOMAIN entropy => entropy'[q] = entropy[q]

\* C23: when the commit of a cell t succeeds, every uncommitted cell within
\* the radius of t holds the normalized weights the callback gives it on the
\* grid that has t's tile, and its priority in the queue is the entropy of
\* that vector; the committed neighbours and every cell outside the
\* neighbourhood other than t are as they were.
C23_CommitUpdatesNeighbors ==
    [][(pc = "loop" /\ pc' = "loop") =>
          \A t \in Grid : (~valid[t] /\ valid'[t]) =>
             \A q \in Grid \ {t} :
                IF Near(q, t) /\ ~valid[q]
                THEN /\ tiles'[q] = tiles[q]
                     /\ ~valid'[q]
                     /\ probabilities'[q] =
                           Normalized(Probability(configuration.probability, tiles',
                                                  configuration.size, q,
                                                  configuration.neighborhood_size))
                     /\ (q \in DOMAIN entropy') <=> (q \in DOMAIN entropy)
                     /\ q \in DOMAIN entropy => entropy'[q] = Entropy(probabilities'[q])
                ELSE SameCell(q)]_vars

\* one cell is committed, and an uncommitted neighbour of it holds another
\* vector than an uncommitted cell that is not its neighbour
C23_Witness ==
    /\ pc = "loop"
    /\ Cardinality(Committed) = 1
    /\ \E t \in Committed : \E q, o \in Uncommitted :
          /\ Near(q, t)
          /\ o # t
          /\ ~Near(o, t)
          /\ probabilities[q] # probabilities[o]

\* C24: when an attempt of backtrack succeeds, every cell of the rectangle it
\* reset holds the sentinel tile, is not valid, holds the normalized weights
\* the callback gives it on the reset grid, and is in the entropy queue with
\* the entropy of that vector as its priority.
C24_BacktrackResetsArea ==
    [][(pc = "backtrack" /\ pc' = "loop") =>
          \A q \in RectCells(bomb_area') :
             /\ tiles'[q] = DefaultTile
             /\ ~valid'[q]
             /\ probabilities'[q] =
                   Normalized(Probability(configuration.probability, tiles',
                                          configuration.size, q,
                                          configuration.neighborhood_size))
             /\ q \in DOMAIN entropy'
             /\ entropy'[q] = Entropy(probabilities'[q])]_vars

\* a backtrack has just succeeded (nothing is committed after a bombing): the
\* cell whose commit failed, popped before, is queued again
C24_Witness ==
    /\ pc = "loop"
    /\ bombings_done > 0
    /\ Committed = {}
    /\ pos \in BombArea
    /\ pos \in DOMAIN entropy

\* the u32 nearest to the u64 r: r itself when it fits
U32Saturated(r) == IF r[3] > 0 \/ r[4] > 0 THEN U32Max ELSE AsU32(r)

\* C25: the k-th attempt of a solve to reset an area (k = bombings_done after
\* the attempt's increment) has the radius bomb_radius * 2^(k-1) and resets
\* the rectangle of that radius; a retry doubles the radius; every attempt
\* counts, and the attempt whose count exceeds max_bombings panics without
\* resetting anything.
C25_RetryDoublesRadius ==
    [][pc = "backtrack" =>
          /\ bombings_done' = bombings_done + 1
          /\ radius = BombRadius(configuration.bomb_radius, bombings_done' - 1)
          /\ pc' = "backtrack" => radius' = U64Double(radius)
          /\ bombings_done' > configuration.max_bombings =>
                pc' = "panic" /\ UNCHANGED ResultVars
          /\ ResetStep =>
                bomb_area' = intersect(around(UVec2(pos), U32Saturated(radius)), all)]_vars

\* the weights w make the evaluation fail
Fails(w) == w[0] = NO_PROBABILITY \/ Sum(w) <= 0

\* the weights the callback gives cell q on the grid the step leaves
WeightsNext(q) ==
    Probability(configuration.probability, tiles', configuration.size, q,
                configuration.neighborhood_size)

\* C26: the evaluation of a cell fails exactly when slot 0 of the callback's
\* weights is NO_PROBABILITY or their sum is <= 0, and a failed evaluation
\* writes nothing.  Seen at the callers: the initial pass, a commit and an
\* area reset fail exactly when a cell they are to evaluate has such weights;
\* the cells with such weights keep their vectors, a failed commit leaves them
\* as they were in the queue too, and a failed reset leaves the queue as it
\* was.
C26_EvaluationFailsOnContradiction ==
    [][/\ pc = "built" =>
             /\ init_ok' <=> \A q \in Grid : ~Fails(WeightsNext(q))
             /\ \A q \in Grid : Fails(WeightsNext(q)) => probabilities'[q] = probabilities[q]
       /\ (pc = "loop" /\ pc' \in {"loop", "backtrack"}) =>
             \A t \in Grid : (~valid[t] /\ valid'[t]) =>
                LET bad == {q \in Grid : Near(q, t) /\ ~valid[q] /\ Fails(WeightsNext(q))}
                IN  /\ pc' = "backtrack" <=> bad # {}
                    /\ pc' = "backtrack" =>
                          /\ failed_at' \in bad
                          /\ \A q \in bad : SameCell(q)
                          /\ DOMAIN entropy' = DOMAIN entropy \ {t}
       /\ (pc = "backtrack" /\ pc' \in {"loop", "backtrack"}) =>
             LET bad == {q \in RectCells(bomb_area') : Fails(WeightsNext(q))}
             IN  /\ pc' = "backtrack" <=> bad # {}
                 /\ \A q \in bad : probabilities'[q] = probabilities[q]
                 /\ pc' = "backtrack" => entropy' = entropy]_vars

\* a commit has failed at a cell whose weights have NO_PROBABILITY in slot 0
\* and a positive sum; the cell holds the vector of its last evaluation
C26_Witness ==
    /\ pc = "backtrack"
    /\ WeightsAt(failed_at)[0] = NO_PROBABILITY
    /\ Sum(WeightsAt(failed_at)) > 0
    /\ probabilities[failed_at][0] = 0

\* C27: when update_probability succeeds on weights w that are all >= 0, the
\* vector it stores is w_i / sum(w): its entries are >= 0 and sum to 1, and
\* an entry is 0 exactly when the weight is 0.
C27_StoredVectorIsNormalized ==
    (call.op = "update_probability" /\ ret.state = "returned" /\ ret.ok) =>
        LET w == Probability(call.probability, call.tiles, call.size, call.pos, 1)
        IN  (\A i \in TileIdx : w[i] >= 0) =>
               /\ \A i \in TileIdx : ret.value[i] * Sum(w) = w[i] * Den
               /\ \A i \in TileIdx : ret.value[i] >= 0
               /\ Sum(ret.value) = Den
               /\ \A i \in TileIdx : ret.value[i] = 0 <=> w[i] = 0

\* the indices whose cumulative sum p_0 + ... + p_i is at least the roll
Reached(ps, roll) == {i \in TileIdx : SumTo(ps, i) >= roll}

\* C28: the selection commits the first tile index whose cumulative sum is at
\* least the roll; and for a vector that sums to 1 (every roll is below 1) it
\* does not end with the panic for no tile.
C28_SelectsFirstReached ==
    (call.op = "select" /\ ret.state # "pending") =>
        /\ Reached(call.ps, call.roll) # {} =>
              /\ ret.state = "committed"
              /\ ret.tile \in Reached(call.ps, call.roll)
              /\ \A i \in Reached(call.ps, call.roll) : ret.tile <= i
        /\ Sum(call.ps) = Den =>
              ~(ret.state = "panic" /\ ret.why = "no_tile")

\* C29: at the head of every iteration of the main loop the vector of every
\* uncommitted cell is the normalized result of the callback on the current
\* grid, the cells next to a rectangle that backtrack has reset included.
C29_VectorsAreCurrent ==
    pc = "loop" =>
        \A q \in Uncommitted :
            /\ ~Fails(WeightsAt(q))
            /\ probabilities[q] = Normalized(WeightsAt(q))

\* C30: the two assertions that close compute_probabilities never fail, on the
\* whole grid and on a rectangle that backtrack resets: the vectors of the
\* rectangle's two corners have more than one positive entry.
C30_CornerAssertionsHold == panic # "probabilities_assert"

\* C31: the radius an attempt of backtrack hands to Rect::around is
\* bomb_radius * 2^bombings_done, not that value modulo 2^32, and it is never
\* smaller than the radius the preceding attempt of the solve handed over.
C31_RadiusNeverWraps ==
    [][/\ pc = "backtrack" =>
             AsU64(AsU32(radius)) =
                 BombRadius(configuration.bomb_radius, bombings_done)
       /\ pc' = "backtrack" => ~U32Less(AsU32(radius'), AsU32(radius))]_vars

\* the coordinates Rect::around is probed at: those of the calls, and the
\* ones next to them
Probes == LibCoords \cup {U32Of(3), U32Of(4), SaturatingSub(U32Max, U32Of(1))}

\* the coordinate x is within r of the coordinate c
WithinAxis(x, c, r) == U32LessEq(AbsDiff(x, c), r)

\* C32: Rect::around(center, radius) holds exactly the positions within
\* radius of center on both axes: its lower corner is center - radius, or 0
\* where that is negative, its upper corner is center + radius with no grid to
\* clamp it; radius 0 gives the center alone, radius 1 the 3x3 block around
\* it, and the center is always inside.
C32_AroundIsSquare ==
    (call.op = "around" /\ ret.state = "returned") =>
        /\ \A q \in Probes \X Probes :
               Inside(q, ret.value) <=>
                   /\ WithinAxis(q[1], call.center[1], call.radius)
                   /\ WithinAxis(q[2], call.center[2], call.radius)
        /\ Inside(call.center, ret.value)
        /\ \A k \in 1 .. 2 :
               /\ IF U32Less(call.center[k], call.radius)
                  THEN ret.value.top_left[k] = U32Of(0)
                  ELSE U32Add(ret.value.top_left[k], call.radius) =
                           [value |-> call.center[k], overflow |-> FALSE]
               /\ ~U32Add(call.center[k], call.radius).overflow =>
                      ret.value.bottom_right[k] =
                          U32Add(call.center[k], call.radius).value
        /\ call.radius = U32Of(0) =>
               /\ ret.value.top_left = call.center
               /\ ret.value.bottom_right = call.center

\* the 3x3 block around (1, 1), and a square cut at the lower bound
C32_Witness ==
    /\ call.op = "around"
    /\ ret.state = "returned"
    /\ \/ /\ call.center = <<U32Of(1), U32Of(1)>>
          /\ call.radius = U32Of(1)
          /\ ret.value = from_corners(<<U32Of(0), U32Of(0)>>, <<U32Of(2), U32Of(2)>>)
       \/ /\ call.center = <<U32Of(1), U32Of(2)>>
          /\ call.radius = U32Of(2)
          /\ ret.value.top_left = <<U32Of(0), U32Of(0)>>
\* the cells a Neighborhood looks at: in the map, valid under the mask if
\* there is one, and one step from the centre
ValidNeighbors(n) ==
    {q \in GridOf(n.size) :
         Adjacent(q, n.position) /\ (n.valid.some => n.valid.v[q])}

\* a centre coordinate at the end of i32, where position + offset overflows
ExtremeCentre(n) == n.position[1] = I32Max \/ n.position[2] = I32Max

\* C33: count(t) is the number of in-map (and mask-valid) neighbour cells whose
\* tile is t, the centre and positions outside the map never counting, and
\* has_only(set) is true exactly when the tile of every such cell is in set,
\* so true when there is none; a call panics only where position + offset
\* overflows in a build with overflow checks
C33_CountAndHasOnlyFoldTiles ==
    /\ call.op \in {"count", "has_only"} /\ ret.state = "panic" =>
           call.overflow_checks /\ ExtremeCentre(call.n)
    /\ call.op = "count" /\ ret.state = "returned" =>
           ret.value = Cardinality({q \in ValidNeighbors(call.n) :
                                        call.n.a[q] = call.x})
    /\ call.op = "has_only" /\ ret.state = "returned" =>
           (ret.value <=> \A q \in ValidNeighbors(call.n) : call.n.a[q] \in call.xs)

\* count returns 2 on a centre inside the map whose own tile is the counted one
C33_Witness ==
    /\ call.op = "count"
    /\ ret.state = "returned"
    /\ ret.value = 2
    /\ call.n.position \in GridOf(call.n.size)
    /\ call.n.a[call.n.position] = call.x

\* the offsets in the order NeighborhoodIterator walks them
FourOffsets == <<(<<0, 1>>), (<<1, 0>>), (<<0, 0 - 1>>), (<<0 - 1, 0>>)>>

\* what a Neighborhood shows at an offset: <<t>> for the tile of the cell
\* there when it is in the map and valid under the mask, <<>> otherwise
Shown(n, offset) ==
    LET at == {q \in GridOf(n.size) :
                   /\ q[1] - offset[1] = n.position[1]
                   /\ q[2] - offset[2] = n.position[2]
                   /\ (n.valid.some => n.valid.v[q])}
    IN  IF at = {} THEN <<>> ELSE <<n.a[CHOOSE q \in at : TRUE]>>

\* C34: a neighbour whose mask entry is false is treated like a position
\* outside the map: get and iter yield None for it, iter_positions leaves it
\* out, and min and max range over the in-map, mask-valid neighbours only and
\* are None when there is none
C34_MaskedIsOutOfMap ==
    /\ call.op = "get" /\ ret.state = "returned" =>
           ret.value = Shown(call.n, call.offset)
    /\ call.op = "iter" /\ ret.state = "returned" =>
           /\ Len(ret.value) = 4
           /\ \A k \in 1 .. 4 : ret.value[k] = Shown(call.n, FourOffsets[k])
    /\ call.op = "iter_positions" /\ ret.state = "returned" =>
           /\ {ret.value[k] : k \in 1 .. Len(ret.value)} = ValidNeighbors(call.n)
           /\ Len(ret.value) = Cardinality(ValidNeighbors(call.n))
    /\ call.op \in {"min", "max"} /\ ret.state = "returned" =>
           LET some == {call.n.a[q] : q \in ValidNeighbors(call.n)}
           IN  IF some = {} THEN ret.value = <<>>
               ELSE /\ Len(ret.value) = 1
                    /\ ret.value[1] \in some
                    /\ \A t \in some : IF call.op = "min" THEN ret.value[1] <= t
                                        ELSE ret.value[1] >= t

\* min returns a tile although a masked-out neighbour in the map has a
\* smaller one
C34_Witness ==
    /\ call.op = "min"
    /\ ret.state = "returned"
    /\ call.n.valid.some
    /\ ret.value # <<>>
    /\ \E q \in GridOf(call.n.size) :
           /\ Adjacent(q, call.n.position)
           /\ ~call.n.valid.v[q]
           /\ call.n.a[q] < ret.value[1]

====
